---- MODULE Spec2Model ----
(***************************************************************************)
(* Model of the ethereum-etl-airflow Spark load pipeline.                  *)
(*                                                                         *)
(*   dags/ethereumetl_airflow/build_load_dag_spark.py                      *)
(*       build_load_dag_spark: the DAG builder (add_load_tasks,            *)
(*       add_enrich_tasks, add_clean_tasks and the fixed sequence of       *)
(*       calls), followed by one run of the returned DAG.                  *)
(*   dags/ethereumetl_airflow/operators/spark_sumbit_py_operator.py        *)
(*       SparkSubmitPyOperator: render, submit, clean up, on_kill.         *)
(***************************************************************************)
EXTENDS Integers, Sequences, FiniteSets, TLC

(***************************************************************************)
(* Part 1.  The DAG builder                                                *)
(***************************************************************************)

\* task_id of the five operators created per task.
WaitId(task)   == "wait_latest_" \o task
LoadId(task)   == "load_" \o task
EnrichId(task) == "enrich_" \o task
CleanId(task)  == "clean_" \o task
S3Id(task)     == "clean_" \o task \o "_s3_file"

\* The calls made by build_load_dag_spark, in program order.
BuildScript ==
  << [op |-> "add_load_tasks", task |-> "blocks", file_format |-> "json",
      dependencies |-> <<>>],
     [op |-> "add_load_tasks", task |-> "transactions", file_format |-> "json",
      dependencies |-> <<>>],
     [op |-> "add_load_tasks", task |-> "receipts", file_format |-> "json",
      dependencies |-> <<>>],
     [op |-> "add_load_tasks", task |-> "logs", file_format |-> "json",
      dependencies |-> <<>>],
     [op |-> "add_load_tasks", task |-> "token_transfers", file_format |-> "json",
      dependencies |-> <<>>],
     [op |-> "add_load_tasks", task |-> "traces", file_format |-> "json",
      dependencies |-> <<>>],
     [op |-> "add_load_tasks", task |-> "contracts", file_format |-> "json",
      dependencies |-> <<>>],
     [op |-> "add_load_tasks", task |-> "tokens", file_format |-> "json",
      dependencies |-> <<>>],
     [op |-> "add_enrich_tasks", task |-> "blocks", file_format |-> "",
      dependencies |-> <<LoadId("blocks")>>],
     [op |-> "add_enrich_tasks", task |-> "transactions", file_format |-> "",
      dependencies |-> <<LoadId("blocks"), LoadId("transactions"),
                         LoadId("receipts")>>],
     [op |-> "add_enrich_tasks", task |-> "logs", file_format |-> "",
      dependencies |-> <<LoadId("blocks"), LoadId("logs")>>],
     [op |-> "add_enrich_tasks", task |-> "token_transfers", file_format |-> "",
      dependencies |-> <<LoadId("blocks"), LoadId("token_transfers")>>],
     [op |-> "add_enrich_tasks", task |-> "traces", file_format |-> "",
      dependencies |-> <<LoadId("blocks"), LoadId("traces")>>],
     [op |-> "add_enrich_tasks", task |-> "contracts", file_format |-> "",
      dependencies |-> <<LoadId("blocks"), LoadId("contracts")>>],
     [op |-> "add_enrich_tasks", task |-> "tokens", file_format |-> "",
      dependencies |-> <<LoadId("tokens")>>],
     [op |-> "add_clean_tasks", task |-> "blocks", file_format |-> "json",
      dependencies |-> <<EnrichId("blocks"), EnrichId("transactions"),
                         EnrichId("logs"), EnrichId("token_transfers"),
                         EnrichId("traces"), EnrichId("contracts")>>],
     [op |-> "add_clean_tasks", task |-> "transactions", file_format |-> "json",
      dependencies |-> <<EnrichId("transactions")>>],
     [op |-> "add_clean_tasks", task |-> "logs", file_format |-> "json",
      dependencies |-> <<EnrichId("logs")>>],
     [op |-> "add_clean_tasks", task |-> "token_transfers", file_format |-> "json",
      dependencies |-> <<EnrichId("token_transfers")>>],
     [op |-> "add_clean_tasks", task |-> "traces", file_format |-> "json",
      dependencies |-> <<EnrichId("traces")>>],
     [op |-> "add_clean_tasks", task |-> "contracts", file_format |-> "json",
      dependencies |-> <<EnrichId("contracts")>>],
     [op |-> "add_clean_tasks", task |-> "tokens", file_format |-> "json",
      dependencies |-> <<EnrichId("tokens")>>],
     [op |-> "add_clean_tasks", task |-> "receipts", file_format |-> "json",
      dependencies |-> <<EnrichId("transactions")>>] >>

\* The task catalog: the tasks named by the calls.
Tasks == {BuildScript[i].task : i \in 1..Len(BuildScript)}

WaitIds   == {WaitId(t) : t \in Tasks}
LoadIds   == {LoadId(t) : t \in Tasks}
EnrichIds == {EnrichId(t) : t \in Tasks}
CleanIds  == {CleanId(t) : t \in Tasks}
S3Ids     == {S3Id(t) : t \in Tasks}

\* Every task_id the builder could register.
AllIds == WaitIds \cup LoadIds \cup EnrichIds \cup CleanIds \cup S3Ids

Range(s) == {s[i] : i \in 1..Len(s)}

\* Partition dates with exported objects in the bucket, and the partition
\* date of the run (the value of {{ds}}).
Dates == {"2018-07-01", "2018-07-02"}
RunDate == "2018-07-01"

\* The template of the storage key, as the parts joined by str.format:
\* 'export/{task}/block_date={datestamp}/{task}.{file_format}' with
\* datestamp='{{ds}}'.
BucketFileKey(task, file_format) ==
  <<"export/", task, "/block_date=", "{{ds}}", "/", task, ".", file_format>>

\* A key of the deletion that names one partition date whatever the run.
DeleteFileKeyFixedDate(task, file_format) ==
  <<"export/", task, "/block_date=", "2018-07-02", "/", task, ".", file_format>>

\* The same template as add_clean_tasks builds it again for the deletion.
DeleteFileKey(task, file_format) ==
  <<"export/", task, "/block_date=", "{{ds}}", "/", task, ".", file_format>>

RECURSIVE Join(_)
Join(parts) ==
  IF parts = <<>> THEN "" ELSE Head(parts) \o Join(Tail(parts))

\* Rendering of a templated field for a run: {{ds}} becomes the run's date.
RenderKey(template, ds) ==
  Join([i \in 1..Len(template) |->
          IF template[i] = "{{ds}}" THEN ds ELSE template[i]])

\* The key the upstream export writes for a task and a partition date.
ExportKey(task, ds) ==
  "export/" \o task \o "/block_date=" \o ds \o "/" \o task \o ".json"

AllExportKeys == {ExportKey(t, d) : t \in Tasks, d \in Dates}

\* 'retries': 2 of default_dag_args, inherited by every operator of the dag.
Retries == 2

\* Bounds of the model.
\* Executor slots: task instances that can run at the same time.
MaxRunning == 1
\* Persistent faults in one run: missing export objects plus nodes whose
\* attempts fail.
MaxFaults == 1

NoTemplate == <<>>

VARIABLES
  spark_conf,  \* argument of build_load_dag_spark: "none" or "conf"
  pc,          \* index of the next call of BuildScript
  result,      \* "building", then "raised" (ValueError) or "dag" (returned)
  nodes,       \* task_ids of the operators registered in the dag
  upstream,    \* upstream task_ids of every operator, as set by >>
  bucket_key,  \* bucket_key of every S3KeySensor
  delete_keys, \* keys of every S3DeleteObjectsOperator
  run,         \* "none" until the dag run is created, then "created"
  state,       \* state of the task instance of every operator
  tries,       \* try_number: attempts started, per task instance
  priority,    \* priority_weight of every task instance
  bucket,      \* keys of the objects present in output_bucket
  tables,      \* tasks whose staging table exists
  faulty,      \* nodes whose attempts have failed in this run
  sensor,      \* one S3KeySensor task instance, poke by poke (Part 3)
  op,          \* executions of a SparkSubmitPyOperator (Part 4)
  fs           \* files of the worker's file system: path -> content (Part 4)

buildVars == <<spark_conf, pc, result, nodes, upstream, bucket_key, delete_keys>>
runVars == <<run, state, tries, priority, bucket, tables, faulty>>
sensorVars == <<sensor>>
opVars == <<op, fs>>
vars == <<buildVars, runVars, sensorVars, opVars>>

\* Tasks whose export object is missing for the run's partition date.
Missing == {t \in Tasks : ExportKey(t, RunDate) \notin bucket}

\* The builder has not started and no run exists; conf is the spark_conf
\* argument and missing the tasks whose object the export did not write.
InitDag(conf, missing) ==
  /\ spark_conf = conf
  /\ pc = 1
  /\ result = "building"
  /\ nodes = {}
  /\ upstream = [n \in AllIds |-> {}]
  /\ bucket_key = [n \in AllIds |-> NoTemplate]
  /\ delete_keys = [n \in AllIds |-> NoTemplate]
  /\ run = "none"
  /\ state = [n \in AllIds |-> "none"]
  /\ tries = [n \in AllIds |-> 0]
  /\ priority = [n \in AllIds |-> 0]
  /\ bucket = AllExportKeys \ {ExportKey(t, RunDate) : t \in missing}
  /\ tables = {}
  /\ faulty = {}

\* if not spark_conf: raise ValueError('k8s_config is required')
RaiseValueError ==
  /\ result = "building"
  /\ pc = 1
  /\ spark_conf = "none"
  /\ result' = "raised"
  /\ UNCHANGED <<spark_conf, pc, nodes, upstream, bucket_key, delete_keys, runVars, sensorVars, opVars>>

\* The arrow the wrong way round: every a of ups gets b as upstream task.
SetUpstreamReversed(up, ups, b) ==
  [n \in AllIds |-> IF n \in ups THEN up[n] \cup {b} ELSE up[n]]

\* The arrow set both ways: b behind every a of ups, and every a behind b.
SetUpstreamBothWays(up, ups, b) ==
  [n \in AllIds |-> IF n = b THEN up[n] \cup ups
                    ELSE IF n \in ups THEN up[n] \cup {b} ELSE up[n]]

\* a >> b for every a of ups: b gets a as upstream task.
SetUpstream(up, ups, b) == [up EXCEPT ![b] = @ \cup ups]

\* A load operator left without its sensor.
GateUpstreamNone(task) == {}

\* wait_sensor >> load_operator: what is set upstream of load_{task}.
GateUpstream(task) == {WaitId(task)}

\* A loop over the dependencies that stops after the first one.
EnrichUpstreamFirstOnly(dependencies) ==
  IF dependencies = <<>> THEN {} ELSE {Head(dependencies)}

\* for dependency in dependencies: dependency >> enrich_operator
EnrichUpstream(dependencies) == Range(dependencies)

\* A loop over the dependencies that stops after the first one.
CleanUpstreamFirstOnly(dependencies) ==
  IF dependencies = <<>> THEN {} ELSE {Head(dependencies)}

\* A loop over the dependencies that leaves out the last one.
CleanUpstreamButLast(dependencies) ==
  {dependencies[i] : i \in 1..(Len(dependencies) - 1)}

\* A clean operator with several dependencies that is put behind every
\* Enrich node of the graph.
CleanUpstreamAllEnrich(dependencies) ==
  IF Len(dependencies) > 1 THEN nodes \cap EnrichIds ELSE Range(dependencies)

\* for dependency in dependencies: dependency >> clean_operator
CleanUpstream(dependencies) == Range(dependencies)

\* A deletion left without its clean operator.
S3UpstreamNone(task) == {}

\* clean_operator >> s3_delete_operator: what is set upstream of
\* clean_{task}_s3_file.
S3Upstream(task) == {CleanId(task)}

\* add_load_tasks(task, file_format): the sensor, the load operator, and
\* wait_sensor >> load_operator.
add_load_tasks ==
  /\ pc \in 1..Len(BuildScript)
  /\ spark_conf = "conf"
  /\ BuildScript[pc].op = "add_load_tasks"
  /\ LET task == BuildScript[pc].task
         file_format == BuildScript[pc].file_format
     IN
       /\ nodes' = nodes \cup {WaitId(task), LoadId(task)}
       /\ bucket_key' = [bucket_key EXCEPT
                           ![WaitId(task)] = BucketFileKey(task, file_format)]
       /\ upstream' = SetUpstream(upstream, GateUpstream(task), LoadId(task))
  /\ pc' = pc + 1
  /\ UNCHANGED <<spark_conf, result, delete_keys, runVars, sensorVars, opVars>>

\* add_enrich_tasks(task, ..., dependencies): the enrich operator, and
\* dependency >> enrich_operator for each dependency.
add_enrich_tasks ==
  /\ pc \in 1..Len(BuildScript)
  /\ spark_conf = "conf"
  /\ BuildScript[pc].op = "add_enrich_tasks"
  /\ LET task == BuildScript[pc].task
         dependencies == BuildScript[pc].dependencies
     IN
       /\ nodes' = nodes \cup {EnrichId(task)}
       /\ upstream' = SetUpstream(upstream, EnrichUpstream(dependencies),
                               EnrichId(task))
  /\ pc' = pc + 1
  /\ UNCHANGED <<spark_conf, result, bucket_key, delete_keys, runVars, sensorVars, opVars>>

\* add_clean_tasks(task, file_format, dependencies): the delete operator and
\* the clean operator, dependency >> clean_operator for each dependency, and
\* clean_operator >> s3_delete_operator.
add_clean_tasks ==
  /\ pc \in 1..Len(BuildScript)
  /\ spark_conf = "conf"
  /\ BuildScript[pc].op = "add_clean_tasks"
  /\ LET task == BuildScript[pc].task
         file_format == BuildScript[pc].file_format
         dependencies == BuildScript[pc].dependencies
     IN
       /\ nodes' = nodes \cup {S3Id(task), CleanId(task)}
       /\ delete_keys' = [delete_keys EXCEPT
                            ![S3Id(task)] = DeleteFileKey(task, file_format)]
       /\ upstream' = SetUpstream(
                        SetUpstream(upstream, CleanUpstream(dependencies),
                                    CleanId(task)),
                        S3Upstream(task), S3Id(task))
  /\ pc' = pc + 1
  /\ UNCHANGED <<spark_conf, result, bucket_key, runVars, sensorVars, opVars>>

\* return dag
ReturnDag ==
  /\ result = "building"
  /\ pc = Len(BuildScript) + 1
  /\ result' = "dag"
  /\ UNCHANGED <<spark_conf, pc, nodes, upstream, bucket_key, delete_keys, runVars, sensorVars, opVars>>

(***************************************************************************)
(* Part 2.  One run of the returned DAG                                    *)
(***************************************************************************)

Downstream(n) == {m \in nodes : n \in upstream[m]}

\* All nodes reachable from n along the edges (n excluded).
RECURSIVE ReachFrom(_, _)
ReachFrom(frontier, seen) ==
  LET new == (UNION {Downstream(m) : m \in frontier}) \ seen
  IN IF new = {} THEN seen ELSE ReachFrom(new, seen \cup new)

Descendants(n) == ReachFrom({n}, {})

\* priority_weight_total under the default weight rule (downstream): the
\* operator's own weight 1 plus 1 for every operator downstream of it.
PriorityWeightTotal(n) == 1 + Cardinality(Descendants(n))

\* The scheduler creates the run for a partition date, with one task
\* instance per operator.
CreateDagRun ==
  /\ result = "dag"
  /\ run = "none"
  /\ run' = "created"
  /\ priority' = [n \in AllIds |->
                    IF n \in nodes THEN PriorityWeightTotal(n) ELSE 0]
  /\ UNCHANGED <<sensorVars, opVars, buildVars, state, tries, bucket, tables, faulty>>

Running == {n \in nodes : state[n] = "running"}

\* Default trigger rule all_success: every upstream task instance succeeded.
DepsMet(n) == \A u \in upstream[n] : state[u] = "success"

Schedulable == {n \in nodes : state[n] \in {"none", "up_for_retry"} /\ DepsMet(n)}

\* The executor starts a schedulable task instance when a slot is free,
\* highest priority_weight first.
Start(n) ==
  /\ run = "created"
  /\ n \in nodes
  /\ state[n] \in {"none", "up_for_retry"}
  /\ DepsMet(n)
  /\ Cardinality(Running) < MaxRunning
  /\ \A m \in Schedulable : priority[m] <= priority[n]
  /\ state' = [state EXCEPT ![n] = "running"]
  /\ tries' = [tries EXCEPT ![n] = @ + 1]
  /\ UNCHANGED <<sensorVars, opVars, buildVars, run, priority, bucket, tables, faulty>>

\* The sensor's poke finds its key: S3KeySensor succeeds.
SensorSucceed(n) ==
  /\ n \in WaitIds
  /\ state[n] = "running"
  /\ RenderKey(bucket_key[n], RunDate) \in bucket
  /\ state' = [state EXCEPT ![n] = "success"]
  /\ UNCHANGED <<sensorVars, opVars, buildVars, run, tries, priority, bucket, tables, faulty>>

\* A scheduler that leaves the task instances behind a failure as they are.
MarkNothing(st) == st

\* The scheduler's pass over the run after a failure: every task instance
\* not yet started that has a failed or upstream_failed upstream is set to
\* upstream_failed, down the whole branch.
RECURSIVE MarkUpstreamFailed(_)
MarkUpstreamFailed(st) ==
  CHOOSE marked \in
    {IF hit = {} THEN s
     ELSE MarkUpstreamFailed([m \in AllIds |->
                                IF m \in hit THEN "upstream_failed" ELSE s[m]])
       : <<s, hit>> \in
           {<<s0, {m \in nodes : /\ s0[m] = "none"
                                 /\ \E u \in upstream[m] :
                                      s0[u] \in {"failed", "upstream_failed"}}>>
              : s0 \in {st}}} : TRUE

\* A retry policy that grants one attempt more than configured.
AfterFailureOneMore(n) ==
  IF tries[n] <= Retries + 1
    THEN [state EXCEPT ![n] = "up_for_retry"]
    ELSE MarkUpstreamFailed([state EXCEPT ![n] = "failed"])

\* State of the run after a failed attempt of n: n is up_for_retry while
\* try_number <= retries and failed afterwards.
AfterFailure(n) ==
  IF tries[n] <= Retries
  THEN [state EXCEPT ![n] = "up_for_retry"]
  ELSE MarkUpstreamFailed([state EXCEPT ![n] = "failed"])

\* The key is not there within the timeout: AirflowSensorTimeout.
SensorTimeout(n) ==
  /\ n \in WaitIds
  /\ state[n] = "running"
  /\ RenderKey(bucket_key[n], RunDate) \notin bucket
  /\ state' = AfterFailure(n)
  /\ UNCHANGED <<sensorVars, opVars, buildVars, run, tries, priority, bucket, tables, faulty>>

TaskOfLoad(n) == CHOOSE t \in Tasks : LoadId(t) = n
TaskOfClean(n) == CHOOSE t \in Tasks : CleanId(t) = n

\* A submitted Spark job finishes successfully.  Load creates the staging
\* table of its task, Clean drops it.
JobSucceed(n) ==
  /\ n \in LoadIds \cup EnrichIds \cup CleanIds
  /\ state[n] = "running"
  /\ n \notin faulty
  /\ state' = [state EXCEPT ![n] = "success"]
  /\ tables' = IF n \in LoadIds THEN tables \cup {TaskOfLoad(n)}
               ELSE IF n \in CleanIds THEN tables \ {TaskOfClean(n)}
               ELSE tables
  /\ UNCHANGED <<sensorVars, opVars, buildVars, run, tries, priority, bucket, faulty>>

\* Faults are persistent and bounded: a node whose attempt failed fails
\* again when retried, and at most MaxFaults faults occur in a run.
CanFail(n) ==
  Cardinality(faulty \cup {n}) + Cardinality(Missing) <= MaxFaults

\* A submitted Spark job fails: the attempt raises.  A Clean job can fail
\* before or after the table was dropped.
JobFail(n) ==
  /\ n \in LoadIds \cup EnrichIds \cup CleanIds
  /\ state[n] = "running"
  /\ CanFail(n)
  /\ faulty' = faulty \cup {n}
  /\ state' = AfterFailure(n)
  /\ \/ tables' = tables
     \/ /\ n \in CleanIds
        /\ TaskOfClean(n) \in tables
        /\ tables' = tables \ {TaskOfClean(n)}
  /\ UNCHANGED <<sensorVars, opVars, buildVars, run, tries, priority, bucket>>

\* S3DeleteObjectsOperator deletes its keys from the bucket.
S3DeleteSucceed(n) ==
  /\ n \in S3Ids
  /\ state[n] = "running"
  /\ n \notin faulty
  /\ bucket' = bucket \ {RenderKey(delete_keys[n], RunDate)}
  /\ state' = [state EXCEPT ![n] = "success"]
  /\ UNCHANGED <<sensorVars, opVars, buildVars, run, tries, priority, tables, faulty>>

\* The deletion request fails: nothing is deleted.
S3DeleteFail(n) ==
  /\ n \in S3Ids
  /\ state[n] = "running"
  /\ CanFail(n)
  /\ faulty' = faulty \cup {n}
  /\ state' = AfterFailure(n)
  /\ UNCHANGED <<sensorVars, opVars, buildVars, run, tries, priority, bucket, tables>>

(***************************************************************************)
(* Part 3: one S3KeySensor task instance, poke by poke                     *)
(***************************************************************************)

\* timeout=60 * 60 and poke_interval=60 of the S3KeySensor, in seconds.
Timeout == 60 * 60
PokeInterval == 60

\* The gate that is watched, and the key it pokes for.
GateTask == "blocks"
GateKey == RenderKey(BucketFileKey(GateTask, "json"), RunDate)

InitSensor ==
  sensor = [state |-> "scheduled", try_number |-> 0, pokes |-> 0,
            elapsed |-> 0, timeouts |-> 0]

\* The scheduler starts an attempt of the sensor: the first one, or the next
\* one of a sensor that is up for retry.
SensorStart ==
  /\ sensor.state \in {"scheduled", "up_for_retry"}
  /\ sensor' = [sensor EXCEPT !.state = "poking", !.try_number = @ + 1,
                              !.pokes = 0, !.elapsed = 0]
  /\ UNCHANGED <<buildVars, runVars, opVars>>

\* poke() finds the key: the attempt and the task instance succeed.
PokeFound ==
  /\ sensor.state = "poking"
  /\ GateKey \in bucket
  /\ sensor' = [sensor EXCEPT !.state = "success", !.pokes = @ + 1]
  /\ UNCHANGED <<buildVars, runVars, opVars>>

\* poke() does not find the key: the sensor goes to sleep for poke_interval.
PokeNotFound ==
  /\ sensor.state = "poking"
  /\ GateKey \notin bucket
  /\ sensor' = [sensor EXCEPT !.state = "sleeping", !.pokes = @ + 1]
  /\ UNCHANGED <<buildVars, runVars, opVars>>

\* The sensor wakes up after poke_interval with time left: it pokes again.
Sleep ==
  /\ sensor.state = "sleeping"
  /\ sensor.elapsed + PokeInterval < Timeout
  /\ sensor' = [sensor EXCEPT !.state = "poking", !.elapsed = @ + PokeInterval]
  /\ UNCHANGED <<buildVars, runVars, opVars>>

\* What the scheduler makes of a failed attempt of the sensor: retries of
\* default_dag_args applies to the sensor as to every operator of the DAG.
AfterSensorTimeout(try_number) ==
  IF try_number <= Retries THEN "up_for_retry" ELSE "failed"

\* The sensor wakes up and the timeout has elapsed: the attempt fails.
SensorTimedOut ==
  /\ sensor.state = "sleeping"
  /\ sensor.elapsed + PokeInterval >= Timeout
  /\ sensor' = [sensor EXCEPT !.state = AfterSensorTimeout(sensor.try_number),
                              !.elapsed = @ + PokeInterval,
                              !.timeouts = @ + 1]
  /\ UNCHANGED <<buildVars, runVars, opVars>>

\* The export job writes the object the gate waits for.
KeyArrives ==
  /\ sensor.state \notin {"success", "failed"}
  /\ GateKey \notin bucket
  /\ bucket' = bucket \cup {GateKey}
  /\ UNCHANGED <<buildVars, run, state, tries, priority, tables, faulty,
                 sensorVars, opVars>>

(***************************************************************************)
(* Part 4: SparkSubmitPyOperator                                           *)
(***************************************************************************)

\* Polls of one submission that are told apart, and calls of on_kill on one
\* execution.
MaxPolls == 2
MaxKills == 1

\* The task's executions, one for every execution date: the scheduler keeps
\* one task instance for a task and an execution date.
Execs == Dates

\* dataset_name and table_name of the operator.
DatasetName == "ethereum"
TableName == "contracts"

\* A scratch path that leaves out the execution date.
ScratchPathNoDate(dataset, table, ds) ==
  "/tmp/" \o dataset \o "_" \o table \o ".py"

\* os.path.join('/tmp', '{dataset}_{table}_{ds}.py')
ScratchPath(dataset, table, ds) ==
  "/tmp/" \o dataset \o "_" \o table \o "_" \o ds \o ".py"

\* What _render_pyspark returns: the path with the URI scheme in front.
FileUri(path) == "file://" \o path

\* The text render_template makes of the template: database, table, ds and
\* one more key that render_context has to supply; a key that is missing
\* from the context renders as the empty string.
Rendered(dataset, table, ds, has_key) ==
  <<dataset, table, ds, IF has_key THEN "value" ELSE "">>

\* os.path.isfile
IsFile(files, path) == path \in DOMAIN files

\* open(path, 'w').write(content)
WriteFile(files, path, content) ==
  [p \in DOMAIN files \cup {path} |-> IF p = path THEN content ELSE files[p]]

\* os.remove
RemoveFile(files, path) == [p \in DOMAIN files \ {path} |-> files[p]]

\* The executions' contexts: context['ds'] is the execution date, and
\* render_context has or lacks the key the template uses.
Contexts == [Execs -> [ds : Dates, has_key : BOOLEAN]]

TaskContexts == {c \in Contexts : \A e \in Execs : c[e].ds = e}

IdleContexts == [e \in Execs |-> [ds |-> e, has_key |-> TRUE]]

\* The operator after __init__: no hook, nothing rendered, nothing submitted.
InitOp(c) ==
  /\ op = [e \in Execs |->
             [pc |-> "constructed", ds |-> c[e].ds, has_key |-> c[e].has_key,
              hook |-> "None", pyspark_path |-> "", job |-> "none",
              polls |-> 0, kills |-> 0, removes |-> 0, on_kills |-> 0,
              killed_while |-> "", error |-> "none"]]
  /\ fs = <<>>

\* execute, first statement: _render_pyspark writes the rendered script to
\* the scratch path and returns the path as a file:// URI.
render_pyspark(e) ==
  /\ op[e].pc = "constructed"
  /\ fs' = WriteFile(fs, ScratchPath(DatasetName, TableName, op[e].ds),
                     Rendered(DatasetName, TableName, op[e].ds, op[e].has_key))
  /\ op' = [op EXCEPT ![e].pc = "rendered",
                      ![e].pyspark_path =
                        FileUri(ScratchPath(DatasetName, TableName, op[e].ds))]
  /\ UNCHANGED <<buildVars, runVars, sensorVars>>

\* execute, first statement, with a render_context that lacks the key and a
\* template that uses the key in a way the empty rendering cannot serve (it
\* reads an attribute of it): render_template raises, nothing is written.
render_raises(e) ==
  /\ op[e].pc = "constructed"
  /\ ~op[e].has_key
  /\ op' = [op EXCEPT ![e].pc = "raised", ![e].error = "UndefinedError"]
  /\ UNCHANGED <<buildVars, runVars, sensorVars, fs>>

\* self._hook = FixedSparkSubmitHook(...)
create_hook(e) ==
  /\ op[e].pc = "rendered"
  /\ op' = [op EXCEPT ![e].pc = "hooked", ![e].hook = "hook"]
  /\ UNCHANGED <<buildVars, runVars, sensorVars, fs>>

\* self._hook.submit(pyspark_path): the job is accepted and runs.
submit(e) ==
  /\ op[e].pc = "hooked"
  /\ op' = [op EXCEPT ![e].pc = "polling", ![e].job = "running"]
  /\ UNCHANGED <<buildVars, runVars, sensorVars, fs>>

\* self._hook.submit(pyspark_path): the submission is rejected and submit
\* raises; execute ends with the exception.
submit_rejected(e) ==
  /\ op[e].pc = "hooked"
  /\ op' = [op EXCEPT ![e].pc = "raised", ![e].error = "AirflowException"]
  /\ UNCHANGED <<buildVars, runVars, sensorVars, fs>>

\* submit polls the job's status at status_poll_interval: still running.
poll(e) ==
  /\ op[e].pc = "polling"
  /\ op[e].job = "running"
  /\ op[e].polls < MaxPolls
  /\ op' = [op EXCEPT ![e].polls = @ + 1]
  /\ UNCHANGED <<buildVars, runVars, sensorVars, fs>>

\* The job ends on the cluster, well or badly.
job_finishes(e) ==
  /\ op[e].job = "running"
  /\ \E outcome \in {"succeeded", "failed"} :
       op' = [op EXCEPT ![e].job = outcome]
  /\ UNCHANGED <<buildVars, runVars, sensorVars, fs>>

\* submit sees the job succeeded and returns.
submit_returns(e) ==
  /\ op[e].pc = "polling"
  /\ op[e].job = "succeeded"
  /\ op' = [op EXCEPT ![e].pc = "submitted"]
  /\ UNCHANGED <<buildVars, runVars, sensorVars, fs>>

\* submit sees the job failed and raises; execute ends with the exception.
submit_raises(e) ==
  /\ op[e].pc = "polling"
  /\ op[e].job = "failed"
  /\ op' = [op EXCEPT ![e].pc = "raised", ![e].error = "AirflowException"]
  /\ UNCHANGED <<buildVars, runVars, sensorVars, fs>>

\* execute, last statement:
\* if os.path.isfile(pyspark_path): os.remove(pyspark_path)
clean_temp(e) ==
  /\ op[e].pc = "submitted"
  /\ IF IsFile(fs, op[e].pyspark_path)
       THEN /\ fs' = RemoveFile(fs, op[e].pyspark_path)
            /\ op' = [op EXCEPT ![e].pc = "done", ![e].removes = @ + 1]
       ELSE /\ fs' = fs
            /\ op' = [op EXCEPT ![e].pc = "done"]
  /\ UNCHANGED <<buildVars, runVars, sensorVars>>

\* The positions inside execute; a task that is cancelled there has on_kill
\* called and execute ended by an exception.
InExecute == {"rendered", "hooked", "polling", "submitted"}

\* on_kill: self._hook.on_kill(). Without a hook the attribute access
\* fails; with one, the hook kills the job if it is in flight.
on_kill(e) ==
  /\ op[e].on_kills < MaxKills
  /\ op' = [op EXCEPT
       ![e].on_kills = @ + 1,
       ![e].killed_while = IF @ = "" THEN op[e].pc ELSE @,
       ![e].kills = IF op[e].hook = "hook" /\ op[e].job = "running"
                      THEN @ + 1 ELSE @,
       ![e].job = IF op[e].hook = "hook" /\ op[e].job = "running"
                    THEN "killed" ELSE @,
       ![e].error = IF op[e].hook = "None" THEN "AttributeError"
                    ELSE IF op[e].pc \in InExecute THEN "AirflowException"
                    ELSE @,
       ![e].pc = IF op[e].pc \in InExecute THEN "raised" ELSE @]
  /\ UNCHANGED <<buildVars, runVars, sensorVars, fs>>

(***************************************************************************)
(* Specifications                                                          *)
(***************************************************************************)

\* A DAG file is loaded with or without a Spark configuration, and the export
\* that precedes a run has left out at most MaxFaults of its objects.
Init ==
  /\ \E conf \in {"none", "conf"}, missing \in SUBSET Tasks :
       /\ Cardinality(missing) <= MaxFaults
       /\ InitDag(conf, missing)
  /\ InitSensor
  /\ InitOp(IdleContexts)

Next ==
  \/ RaiseValueError
  \/ add_load_tasks
  \/ add_enrich_tasks
  \/ add_clean_tasks
  \/ ReturnDag
  \/ CreateDagRun
  \/ \E n \in AllIds : Start(n)
  \/ \E n \in AllIds : SensorSucceed(n)
  \/ \E n \in AllIds : SensorTimeout(n)
  \/ \E n \in AllIds : JobSucceed(n)
  \/ \E n \in AllIds : JobFail(n)
  \/ \E n \in AllIds : S3DeleteSucceed(n)
  \/ \E n \in AllIds : S3DeleteFail(n)

Spec == Init /\ [][Next]_vars

\* The scheduler keeps working while there is something to do: a task
\* instance that can be started is started, and a started one ends.
FairSpec == Spec /\ WF_vars(Next)

\* One gate watched poke by poke; its object is absent when the run begins.
InitGate ==
  /\ InitDag("conf", {GateTask})
  /\ InitSensor
  /\ InitOp(IdleContexts)

NextGate ==
  \/ SensorStart
  \/ PokeFound
  \/ PokeNotFound
  \/ Sleep
  \/ SensorTimedOut
  \/ KeyArrives

SpecGate == InitGate /\ [][NextGate]_vars

\* Executions of one SparkSubmitPyOperator task for distinct execution dates,
\* each with a render_context that has or lacks the key the template uses.
InitOperator ==
  /\ InitDag("conf", {})
  /\ InitSensor
  /\ \E c \in TaskContexts : InitOp(c)

NextOp ==
  \/ \E e \in Execs : render_pyspark(e)
  \/ \E e \in Execs : render_raises(e)
  \/ \E e \in Execs : create_hook(e)
  \/ \E e \in Execs : submit(e)
  \/ \E e \in Execs : submit_rejected(e)
  \/ \E e \in Execs : poll(e)
  \/ \E e \in Execs : job_finishes(e)
  \/ \E e \in Execs : submit_returns(e)
  \/ \E e \in Execs : submit_raises(e)
  \/ \E e \in Execs : clean_temp(e)
  \/ \E e \in Execs : on_kill(e)

SpecOp == InitOperator /\ [][NextOp]_vars

(***************************************************************************)
(* Properties of the built graph and of its run                            *)
(***************************************************************************)

\* A task instance has started once an attempt of it was begun.
Started(n) == tries[n] > 0

\* The Enrich nodes that have load_{task} among their upstream nodes.
Consumers(task) == {e \in nodes \cap EnrichIds : LoadId(task) \in upstream[e]}

EnrichTable(task) ==
  CASE task = "blocks" -> {LoadId("blocks")}
    [] task = "transactions" ->
         {LoadId("blocks"), LoadId("transactions"), LoadId("receipts")}
    [] task = "logs" -> {LoadId("blocks"), LoadId("logs")}
    [] task = "token_transfers" -> {LoadId("blocks"), LoadId("token_transfers")}
    [] task = "traces" -> {LoadId("blocks"), LoadId("traces")}
    [] task = "contracts" -> {LoadId("blocks"), LoadId("contracts")}
    [] task = "tokens" -> {LoadId("tokens")}

\* C2: in the returned graph the upstream set of every Enrich node is exactly
\* the set of Load nodes of the fixed dependency table, and there is an
\* Enrich node for every task except receipts.
C2_EnrichPredecessors ==
  result = "dag" =>
    /\ nodes \cap EnrichIds = {EnrichId(t) : t \in Tasks \ {"receipts"}}
    /\ \A t \in Tasks \ {"receipts"} : upstream[EnrichId(t)] = EnrichTable(t)

\* Witness of C2: the graph is returned with the three-way fan-in of
\* enrich_transactions in it.
C2_Witness ==
  /\ result = "dag"
  /\ Cardinality(upstream[EnrichId("transactions")]) = 3

\* C3 as stated: clean(blocks) depends on every Enrich node of the graph,
\* enrich(tokens) included; clean(transactions) and clean(receipts) on
\* enrich(transactions); every other clean(task) on enrich(task).
C3_Original ==
  result = "dag" =>
    /\ upstream[CleanId("blocks")] = nodes \cap EnrichIds
    /\ upstream[CleanId("transactions")] = {EnrichId("transactions")}
    /\ upstream[CleanId("receipts")] = {EnrichId("transactions")}
    /\ \A t \in Tasks \ {"blocks", "transactions", "receipts"} :
         upstream[CleanId(t)] = {EnrichId(t)}

\* C3 as amended: clean(blocks) depends on every Enrich node except
\* enrich(tokens), that is, on the six Enrich nodes that read load(blocks);
\* clean(transactions) and clean(receipts) on enrich(transactions); every
\* other clean(task) on enrich(task) alone.
C3_CleanPredecessors ==
  result = "dag" =>
    /\ upstream[CleanId("blocks")] = (nodes \cap EnrichIds) \ {EnrichId("tokens")}
    /\ upstream[CleanId("blocks")] = Consumers("blocks")
    /\ Cardinality(upstream[CleanId("blocks")]) = 6
    /\ upstream[CleanId("transactions")] = {EnrichId("transactions")}
    /\ upstream[CleanId("receipts")] = {EnrichId("transactions")}
    /\ \A t \in Tasks \ {"blocks", "transactions", "receipts"} :
         upstream[CleanId(t)] = {EnrichId(t)}

\* Witness of C3: the graph is returned, with clean_blocks and enrich_tokens
\* in it and no edge between them.
C3_Witness ==
  /\ result = "dag"
  /\ CleanId("blocks") \in nodes
  /\ EnrichId("tokens") \in nodes
  /\ EnrichId("tokens") \notin upstream[CleanId("blocks")]

Layer(n) ==
  IF n \in WaitIds THEN 1
  ELSE IF n \in LoadIds THEN 2
  ELSE IF n \in EnrichIds THEN 3
  ELSE IF n \in S3Ids THEN 5
  ELSE 4

\* C7: the graph has no cycle, and every edge goes from a layer to a later
\* one in the order gate, Load, Enrich, Clean, object-delete.
C7_AcyclicLayered ==
  /\ \A n \in AllIds : \A u \in upstream[n] :
       /\ u \in nodes
       /\ n \in nodes
       /\ Layer(u) < Layer(n)
  /\ run = "none" => \A n \in nodes : n \notin Descendants(n)

\* Witness of C7: the complete graph, with edges out of all four layers
\* that have successors.
C7_Witness ==
  /\ result = "dag"
  /\ WaitId("blocks") \in upstream[LoadId("blocks")]
  /\ LoadId("receipts") \in upstream[EnrichId("transactions")]
  /\ EnrichId("logs") \in upstream[CleanId("blocks")]
  /\ CleanId("tokens") \in upstream[S3Id("tokens")]

\* C8: every Load node has the gate of its own task as direct upstream, and
\* load_T has started only if that gate succeeded on the key of T's object
\* for the run's partition date.
C8_LoadGated ==
  /\ result = "dag" =>
       \A t \in Tasks : /\ LoadId(t) \in nodes
                        /\ WaitId(t) \in upstream[LoadId(t)]
  /\ \A t \in Tasks :
       Started(LoadId(t)) =>
         /\ state[WaitId(t)] = "success"
         /\ RenderKey(bucket_key[WaitId(t)], RunDate) = ExportKey(t, RunDate)
         /\ \/ ExportKey(t, RunDate) \in bucket
            \/ state[S3Id(t)] = "success"

\* Witness of C8: load_receipts runs after its gate found the object.
C8_Witness ==
  /\ state[LoadId("receipts")] = "running"
  /\ state[WaitId("receipts")] = "success"
  /\ ExportKey("receipts", RunDate) \in bucket

\* C9: when the gate of a task T has failed, no node reachable from it has
\* ever started: load_T, the Enrich nodes reading load_T, the Clean nodes
\* behind them and their object deletions.
C9_GateFailureStopsBranch ==
  \A t \in Tasks :
    state[WaitId(t)] = "failed" =>
      /\ ~Started(LoadId(t))
      /\ \A d \in Descendants(LoadId(t)) : ~Started(d)
      /\ \A d \in Descendants(WaitId(t)) : state[d] = "upstream_failed"

\* Witness of C9: the gate of transactions timed out on every attempt; the
\* branch behind it, down to the deletion of the receipts object, is
\* upstream_failed while the tokens branch has started.
C9_Witness ==
  /\ state[WaitId("transactions")] = "failed"
  /\ tries[WaitId("transactions")] = Retries + 1
  /\ state[S3Id("receipts")] = "upstream_failed"
  /\ S3Id("receipts") \in Descendants(WaitId("transactions"))
  /\ Started(LoadId("tokens"))

\* An execution of execute is over: it returned or it ended by an exception.
Exited(e) == op[e].pc \in {"done", "raised"}

\* The scratch file an execution wrote.
Written(e) == ScratchPath(DatasetName, TableName, op[e].ds)

\* C4: on every exit path of execute (normal return, an error raised by
\* submission or polling, a kill) the scratch file the execution wrote no
\* longer exists once the execution is over.
C4_ScratchRemovedOnExit ==
  \A e \in Execs :
    (Exited(e) /\ op[e].pyspark_path # "") => ~IsFile(fs, Written(e))

\* C5: when a cancellation arrives while the operator polls a submitted job
\* that is still in flight, the kill of that job is issued exactly once and
\* the scratch file is deleted exactly once.
C5_KillOnceDeleteOnce ==
  \A e \in Execs :
    (op[e].killed_while = "polling" /\ op[e].job \notin {"succeeded", "failed"})
      => /\ op[e].kills = 1
         /\ op[e].removes = 1
         /\ ~IsFile(fs, Written(e))

\* C10: a gate whose key never appears fails after exactly timeout/interval
\* pokes, and that single timeout is terminal: the sensor is failed for good
\* and the scheduler does not run it again.
C10_TimeoutTerminal ==
  (sensor.timeouts >= 1 /\ GateKey \notin bucket)
    => /\ sensor.state = "failed"
       /\ sensor.pokes = Timeout \div PokeInterval
       /\ sensor.try_number = 1
       /\ sensor.timeouts = 1

\* C11: a node is attempted at most retries + 1 = 3 times in a run; a node
\* is failed only after its last attempt failed, none of its descendants has
\* ever started, and a failed node stays failed and is not attempted again.
C11_BoundedRetries ==
  /\ [](\A n \in AllIds :
          /\ tries[n] <= Retries + 1
          /\ state[n] = "up_for_retry" => (n \in faulty \cup WaitIds /\ tries[n] <= Retries)
          /\ state[n] = "failed" =>
               /\ tries[n] = Retries + 1
               /\ \A d \in Descendants(n) : ~Started(d))
  /\ [][\A n \in AllIds :
          state[n] = "failed" => (state'[n] = "failed" /\ tries'[n] = tries[n])]_vars

\* Witness of C11: load_tokens failed on its third attempt; enrich_tokens
\* and the cleanup behind it have not started.
C11_Witness ==
  /\ state[LoadId("tokens")] = "failed"
  /\ tries[LoadId("tokens")] = 3
  /\ state[EnrichId("tokens")] = "upstream_failed"
  /\ ~Started(S3Id("tokens"))

\* The nodes that have failed for good, and the nodes behind them.
Failed == {f \in nodes : state[f] = "failed"}
Blocked == Failed \cup UNION {Descendants(f) : f \in Failed}

\* The nodes of the branch of one task, from its gate to its deletion.
Branch(task) ==
  {WaitId(task), LoadId(task), EnrichId(task), CleanId(task), S3Id(task)}

\* C12: the graph has no edge but the dependency edges of the table: Load
\* nodes of distinct tasks are unordered, and everything behind a node of the
\* tokens branch is in the tokens branch; and when a node has failed for good,
\* every node that is neither failed nor behind a failed node eventually
\* succeeds under fair scheduling.
C12_IndependentBranches ==
  /\ [](result = "dag" =>
          /\ \A t1, t2 \in Tasks : LoadId(t1) \notin Descendants(LoadId(t2))
          /\ \A n \in Branch("tokens") : Descendants(n) \subseteq Branch("tokens")
          /\ \A n \in nodes : \A u \in upstream[n] :
               \/ n \in LoadIds /\ u \in WaitIds
               \/ n \in EnrichIds /\ u \in EnrichTable(CHOOSE t \in Tasks : EnrichId(t) = n)
               \/ n \in CleanIds /\ u \in EnrichIds
               \/ n \in S3Ids /\ u \in CleanIds)
  /\ (Failed # {}) ~> (\A n \in nodes \ Blocked : state[n] = "success")

\* Witness of C12: the gate of contracts failed for good, and nodes that are
\* not behind it, among them the whole tokens branch, have succeeded.
C12_Witness ==
  /\ state[WaitId("contracts")] = "failed"
  /\ state[S3Id("tokens")] = "success"
  /\ state[EnrichId("transactions")] = "success"
  /\ state[EnrichId("contracts")] = "upstream_failed"

\* C17: for every task T the keys of clean_T_s3_file are the bucket_key of
\* wait_latest_T, and for every partition date they render to
\* export/T/block_date=date/T.json; in a run the only objects that leave the
\* bucket are objects of the run's date whose own deletion has succeeded
\* after their own gate found them.
C17_DeleteKeyIsGateKey ==
  /\ \A t \in Tasks :
       S3Id(t) \in nodes =>
         /\ WaitId(t) \in nodes
         /\ delete_keys[S3Id(t)] = bucket_key[WaitId(t)]
         /\ \A d \in Dates :
              RenderKey(delete_keys[S3Id(t)], d) = ExportKey(t, d)
  /\ \A t \in Tasks, d \in Dates :
       (ExportKey(t, d) \notin bucket /\ state[WaitId(t)] = "success")
         => (d = RunDate /\ state[S3Id(t)] = "success")
  /\ \A t \in Tasks, d \in Dates \ {RunDate} : ExportKey(t, d) \in bucket

\* Witness of C17: the object of receipts for the run's date was found by
\* its gate and has been deleted, the one of the other date is there.
C17_Witness ==
  /\ state[WaitId("receipts")] = "success"
  /\ state[S3Id("receipts")] = "success"
  /\ ExportKey("receipts", RunDate) \notin bucket
  /\ \E d \in Dates \ {RunDate} : ExportKey("receipts", d) \in bucket

\* C13: for distinct execution dates the scratch paths differ and the gate
\* keys differ, a gate key being the key of its own date's object only; and
\* in every interleaving of the executions each one submits the URI of its
\* own file, and its file, once written, holds its own rendering and is
\* there as long as the execution itself has not removed it.
C13_NoCrossPartition ==
  /\ \A d1, d2 \in Dates :
       d1 # d2 =>
         /\ ScratchPath(DatasetName, TableName, d1)
              # ScratchPath(DatasetName, TableName, d2)
         /\ \A t \in Tasks :
              /\ RenderKey(BucketFileKey(t, "json"), d1)
                   # RenderKey(BucketFileKey(t, "json"), d2)
              /\ RenderKey(BucketFileKey(t, "json"), d1) = ExportKey(t, d1)
              /\ RenderKey(BucketFileKey(t, "json"), d1) # ExportKey(t, d2)
  /\ \A e \in Execs :
       op[e].pyspark_path # "" =>
         /\ op[e].pyspark_path = FileUri(Written(e))
         /\ \A e2 \in Execs \ {e} : op[e].pyspark_path # FileUri(Written(e2))
         /\ op[e].removes = 0 =>
              /\ IsFile(fs, Written(e))
              /\ fs[Written(e)] =
                   Rendered(DatasetName, TableName, op[e].ds, op[e].has_key)

\* Witness of C13: the executions of both dates poll their jobs at the same
\* time, each with its own scratch file on disk.
C13_Witness ==
  /\ \A e \in Execs : op[e].pc = "polling" /\ op[e].job = "running"
  /\ Cardinality({Written(e) : e \in Execs}) = 2
  /\ \A e \in Execs : IsFile(fs, Written(e))

\* C14: an execution whose context lacks a key the template uses fails in
\* rendering with an error (the MissingContextKey of the specification),
\* writes no scratch file and submits no job, and no file holds a rendering
\* in which the missing key became the empty string.
C14_MissingKeyFails ==
  \A e \in Execs :
    (~op[e].has_key /\ op[e].pc # "constructed")
      => /\ op[e].pc = "raised"
         /\ op[e].error # "none"
         /\ op[e].pyspark_path = ""
         /\ ~IsFile(fs, Written(e))
         /\ op[e].job = "none"

\* C15: the path execute tests and removes after submit has returned is the
\* path _render_pyspark wrote; once execute has returned normally the file
\* written under /tmp for (dataset, table, ds) is gone, removed by execute.
C15_RemovesWrittenFile ==
  \A e \in Execs :
    /\ op[e].pc \in {"submitted", "done"} => op[e].pyspark_path = Written(e)
    /\ op[e].pc = "done" =>
         /\ ~IsFile(fs, Written(e))
         /\ op[e].removes = 1

\* C16: no call of on_kill raises, wherever the operator is: constructed and
\* not yet executed, rendered with no hook yet, submitting or polling, or
\* returned; and a call made while no job is in flight kills nothing.
C16_OnKillNeverRaises ==
  \A e \in Execs :
    /\ op[e].error # "AttributeError"
    /\ op[e].kills > 0 => op[e].job = "killed"
    /\ op[e].kills <= op[e].on_kills

\* Nothing has gone wrong in the run so far: every gate has found its key
\* or can find it, and no job or deletion has failed.
Healthy ==
  /\ faulty = {}
  /\ \A t \in Tasks :
       ExportKey(t, RunDate) \in bucket \/ state[WaitId(t)] = "success"

\* The run is over with all of the graph done.
AllDone ==
  /\ Cardinality(nodes) = 39
  /\ \A n \in nodes : state[n] = "success" /\ tries[n] = 1
  /\ tables = {}
  /\ \A t \in Tasks : ExportKey(t, RunDate) \notin bucket
  /\ Schedulable = {}
  /\ Running = {}

\* C18: in a run where every key is present and every job and deletion
\* succeeds no node is attempted twice, and under fair scheduling the run
\* comes to its end with every one of the 39 nodes succeeded once, every
\* staging table dropped and the object of each of the 8 tasks deleted.
C18_RunCompletes ==
  /\ [](Healthy => \A n \in AllIds : tries[n] <= 1)
  /\ (run = "created" /\ Healthy) ~> (AllDone \/ ~Healthy)

\* Witness of C18: a run without a fault has ended; the receipts table was
\* dropped and its object deleted behind enrich_transactions.
C18_Witness ==
  /\ Healthy
  /\ AllDone
  /\ EnrichId("receipts") \notin nodes
  /\ upstream[CleanId("receipts")] = {EnrichId("transactions")}
  /\ state[S3Id("receipts")] = "success"

====
